---- MODULE Spec2Model ----
(***************************************************************************)
(* Model of the genHypo literature-mining pipeline:                        *)
(*   - split_text / extract_causal_kg   (graph_constructor.py)             *)
(*   - generate_text / conversation_history   (api.py)                     *)
(*   - download_pdf / save_pdfs_from_url_list (utils/download.py)          *)
(*                                                                         *)
(* Strings are sequences of characters; a character is a natural number:   *)
(* 0 is the blank, 1 the comma, every larger number a letter.              *)
(***************************************************************************)
EXTENDS Integers, Sequences, FiniteSets, TLC

VARIABLES
    \* ---- split_text called on its own
    text, chunk_size, split_chunks, split_pc,
    \* ---- extract_causal_kg and the shared conversation history
    fulltext, kg_chunk_size, chunks, ci, chunk, conversation_history,
    history0, h_before, prompt, response, type_reply, causal_types,
    pending, kg_triples, calls, responses, pc,
    \* ---- save_pdfs_from_url_list
    urls, overwrite, files, results, net, di

splitvars == <<text, chunk_size, split_chunks, split_pc>>
kgvars == <<fulltext, kg_chunk_size, chunks, ci, chunk, conversation_history,
            history0, h_before, prompt, response, type_reply, causal_types,
            pending, kg_triples, calls, responses, pc>>
dlvars == <<urls, overwrite, files, results, net, di>>
vars == <<splitvars, kgvars, dlvars>>

----------------------------------------------------------------------------
\* Bounds of the model
MaxSentences == 3
MaxSentLen == 3
MaxChunkSize == 5
MaxKGSentences == 2
MaxKGSentLen == 2
MaxKGChunkSize == 3
MaxReplyLen == 3
MaxUrls == 2

----------------------------------------------------------------------------
\* Characters and Python string primitives
Space == 0
Comma == 1

RECURSIVE lstrip(_)
lstrip(s) ==
    IF s = <<>> THEN s
    ELSE IF Head(s) = Space THEN lstrip(Tail(s)) ELSE s

RECURSIVE rstrip(_)
rstrip(s) ==
    IF s = <<>> THEN s
    ELSE IF s[Len(s)] = Space THEN rstrip(SubSeq(s, 1, Len(s) - 1)) ELSE s

\* str.strip(): removes the leading and the trailing blanks
strip(s) == rstrip(lstrip(s))

\* str.split(sep): the pieces between separators, empty pieces included;
\* the empty string splits into one empty piece
RECURSIVE split(_, _)
split(s, sep) ==
    IF \A i \in 1..Len(s) : s[i] # sep THEN <<s>>
    ELSE LET i == CHOOSE k \in 1..Len(s) :
                     s[k] = sep /\ \A j \in 1..(k - 1) : s[j] # sep
         IN <<SubSeq(s, 1, i - 1)>> \o split(SubSeq(s, i + 1, Len(s)), sep)

\* sep.join(parts)
RECURSIVE join(_, _)
join(parts, sep) ==
    IF parts = <<>> THEN <<>>
    ELSE IF Len(parts) = 1 THEN parts[1]
    ELSE parts[1] \o <<sep>> \o join(Tail(parts), sep)

IsSentence(p) == p # <<>>

\* nltk.sent_tokenize: the sentences of a text, in order.  In the model a
\* sentence is a maximal run of letters and the blank is the boundary.
sent_tokenize(t) == SelectSeq(split(t, Space), IsSentence)

----------------------------------------------------------------------------
\* split_text (graph_constructor.py)

\* the for loop over the sentences and the final flush of the buffer
RECURSIVE split_loop(_, _, _, _)
split_loop(sentences, current_chunk, acc, size) ==
    IF sentences = <<>>
    THEN IF current_chunk # <<>> THEN Append(acc, strip(current_chunk)) ELSE acc
    ELSE LET sentence == Head(sentences) IN
         IF Len(current_chunk) + Len(sentence) <= size
         THEN split_loop(Tail(sentences), current_chunk \o <<Space>> \o sentence, acc, size)
         ELSE IF current_chunk # <<>>
         THEN split_loop(Tail(sentences), sentence, Append(acc, strip(current_chunk)), size)
         ELSE split_loop(Tail(sentences), current_chunk, acc, size)

split_text(t, size) == split_loop(sent_tokenize(t), <<>>, <<>>, size)

\* Inputs: the k-th sentence of a document is a run of the letter k+1
SentenceOf(k, n) == [j \in 1..n |-> k + 1]

DocsOf(maxn, maxlen) ==
    UNION { { [k \in 1..n |-> SentenceOf(k, lens[k])] : lens \in [1..n -> 1..maxlen] }
            : n \in 0..maxn }

TextsOf(maxn, maxlen) == { join(d, Space) : d \in DocsOf(maxn, maxlen) }

----------------------------------------------------------------------------
\* api.py: the shared conversation history and generate_text

user_turn(p) == [role |-> "user", content |-> p]

\* generate_text, line 8: the prompt is appended as a user turn before the
\* request is sent
history_after_prompt(history, p) == Append(history, user_turn(p))

\* a generate_text that records the reply as an assistant turn
history_with_reply(history, content) ==
    Append(history, [role |-> "assistant", content |-> content])

\* generate_text, lines 9-14: the reply is taken out of the response and
\* returned; conversation_history is not touched
history_after_response(history, content) == history

\* a pop at the wrong end
pop_front(history) == Tail(history)

\* conversation_history.pop(): removes the last turn
pop(history) == SubSeq(history, 1, Len(history) - 1)

----------------------------------------------------------------------------
\* extract_causal_kg (graph_constructor.py)

\* chunks[:1]
first_chunks(cs) == SubSeq(cs, 1, IF Len(cs) < 1 THEN Len(cs) ELSE 1)

type_prompt(c) == [kind |-> "type", ctype |-> <<>>, chunk |-> c]
instance_prompt(t, c) == [kind |-> "instance", ctype |-> t, chunk |-> c]

\* set(reply.split(",")) followed by causal_types.add(ctype.strip())
parse_types(reply) ==
    LET c_types == { split(reply, Comma)[i] : i \in 1..Len(split(reply, Comma)) }
    IN { strip(t) : t \in c_types }

\* an assignment in place of the append
replace_triple(triples, instances) == <<instances>>

\* kg_triples.append(instances)
append_triple(triples, instances) == Append(triples, instances)

\* Replies of the generation service
ReplyChars == {Space, Comma, 2, 3}
TypeReplies == UNION { [1..n -> ReplyChars] : n \in 0..MaxReplyLen }
InstanceReplies == { <<2>>, <<3>> }

\* Histories left behind by earlier callers of generate_text (ReviewSearch
\* and ReviewSelection never pop)
search_prompt == [kind |-> "search", ctype |-> <<>>, chunk |-> <<>>]
PriorHistories == { <<>>, <<user_turn(search_prompt)>> }

KGIdle ==
    /\ fulltext = <<>> /\ kg_chunk_size = 0 /\ chunks = <<>> /\ ci = 0
    /\ chunk = <<>> /\ conversation_history = <<>> /\ history0 = <<>>
    /\ h_before = <<>> /\ prompt = search_prompt /\ response = <<>>
    /\ type_reply = <<>> /\ causal_types = {} /\ pending = {}
    /\ kg_triples = <<>> /\ calls = <<>> /\ responses = <<>> /\ pc = "idle"

KGInit ==
    /\ fulltext \in TextsOf(MaxKGSentences, MaxKGSentLen)
    /\ kg_chunk_size \in 1..MaxKGChunkSize
    /\ history0 \in PriorHistories
    /\ conversation_history = history0
    /\ chunks = <<>> /\ ci = 0 /\ chunk = <<>> /\ h_before = <<>>
    /\ prompt = search_prompt /\ response = <<>> /\ type_reply = <<>>
    /\ causal_types = {} /\ pending = {} /\ kg_triples = <<>>
    /\ calls = <<>> /\ responses = <<>> /\ pc = "start"

\* lines 24-25: chunks = split_text(fulltext, chunk_size); kg_triples = []
Start ==
    /\ UNCHANGED <<splitvars, dlvars>>
    /\ pc = "start"
    /\ chunks' = split_text(fulltext, kg_chunk_size)
    /\ kg_triples' = <<>>
    /\ pc' = "chunk_loop"
    /\ UNCHANGED <<fulltext, kg_chunk_size, ci, chunk, conversation_history,
                   history0, h_before, prompt, response, type_reply,
                   causal_types, pending, calls, responses>>

\* lines 26-33: the next chunk of chunks[:1]; causal_types = set(); the
\* type-discovery prompt is built
BeginChunk ==
    /\ UNCHANGED <<splitvars, dlvars>>
    /\ pc = "chunk_loop"
    /\ ci < Len(first_chunks(chunks))
    /\ ci' = ci + 1
    /\ chunk' = first_chunks(chunks)[ci + 1]
    /\ causal_types' = {}
    /\ prompt' = type_prompt(first_chunks(chunks)[ci + 1])
    /\ pc' = "type_call"
    /\ UNCHANGED <<fulltext, kg_chunk_size, chunks, conversation_history,
                   history0, h_before, response, type_reply, pending,
                   kg_triples, calls, responses>>

\* generate_text up to the request: the user turn is appended and the whole
\* history is sent (lines 8-12 of api.py), for either kind of prompt
GenerateSend ==
    /\ UNCHANGED <<splitvars, dlvars>>
    /\ pc \in {"type_call", "instance_call"}
    /\ h_before' = conversation_history
    /\ conversation_history' = history_after_prompt(conversation_history, prompt)
    /\ calls' = Append(calls, [prompt |-> prompt,
                               sent |-> history_after_prompt(conversation_history, prompt)])
    /\ pc' = IF pc = "type_call" THEN "type_wait" ELSE "instance_wait"
    /\ UNCHANGED <<fulltext, kg_chunk_size, chunks, ci, chunk, history0,
                   prompt, response, type_reply, causal_types, pending,
                   kg_triples, responses>>

\* generate_text returns the content of the service's reply
GenerateReturn ==
    /\ UNCHANGED <<splitvars, dlvars>>
    /\ pc \in {"type_wait", "instance_wait"}
    /\ \E reply \in (IF pc = "type_wait" THEN TypeReplies ELSE InstanceReplies) :
          /\ response' = reply
          /\ responses' = Append(responses, reply)
          /\ conversation_history' = history_after_response(conversation_history, reply)
    /\ pc' = IF pc = "type_wait" THEN "type_returned" ELSE "instance_returned"
    /\ UNCHANGED <<fulltext, kg_chunk_size, chunks, ci, chunk, history0,
                   h_before, prompt, type_reply, causal_types, pending,
                   kg_triples, calls>>

\* the request raises; nothing catches it and the pipeline is abandoned
GenerateRaise ==
    /\ UNCHANGED <<splitvars, dlvars>>
    /\ pc \in {"type_wait", "instance_wait"}
    /\ pc' = "raised"
    /\ UNCHANGED <<fulltext, kg_chunk_size, chunks, ci, chunk,
                   conversation_history, history0, h_before, prompt, response,
                   type_reply, causal_types, pending, kg_triples, calls,
                   responses>>

\* lines 34-37: the reply is split at commas, each piece is stripped and
\* added to causal_types, and the last turn of the history is popped
ParseTypes ==
    /\ UNCHANGED <<splitvars, dlvars>>
    /\ pc = "type_returned"
    /\ type_reply' = response
    /\ causal_types' = causal_types \cup parse_types(response)
    /\ pending' = causal_types \cup parse_types(response)
    /\ conversation_history' = pop(conversation_history)
    /\ pc' = "instance_loop"
    /\ UNCHANGED <<fulltext, kg_chunk_size, chunks, ci, chunk, history0,
                   h_before, prompt, response, kg_triples, calls, responses>>

\* lines 39-55: the next type of the set, in the set's iteration order
\* (unspecified); the instance prompt is built
BeginInstance ==
    /\ UNCHANGED <<splitvars, dlvars>>
    /\ pc = "instance_loop"
    /\ \E t \in pending :
          /\ prompt' = instance_prompt(t, chunk)
          /\ pending' = pending \ {t}
    /\ pc' = "instance_call"
    /\ UNCHANGED <<fulltext, kg_chunk_size, chunks, ci, chunk,
                   conversation_history, history0, h_before, response,
                   type_reply, causal_types, kg_triples, calls, responses>>

\* lines 56-58: the reply is appended to kg_triples and the last turn of
\* the history is popped
AppendInstance ==
    /\ UNCHANGED <<splitvars, dlvars>>
    /\ pc = "instance_returned"
    /\ kg_triples' = append_triple(kg_triples, response)
    /\ conversation_history' = pop(conversation_history)
    /\ pc' = "instance_loop"
    /\ UNCHANGED <<fulltext, kg_chunk_size, chunks, ci, chunk, history0,
                   h_before, prompt, response, type_reply, causal_types,
                   pending, calls, responses>>

\* the loop over causal_types is exhausted: back to the loop over chunks
EndChunk ==
    /\ UNCHANGED <<splitvars, dlvars>>
    /\ pc = "instance_loop"
    /\ pending = {}
    /\ pc' = "chunk_loop"
    /\ UNCHANGED <<fulltext, kg_chunk_size, chunks, ci, chunk,
                   conversation_history, history0, h_before, prompt, response,
                   type_reply, causal_types, pending, kg_triples, calls,
                   responses>>

\* line 59: return kg_triples
Return ==
    /\ UNCHANGED <<splitvars, dlvars>>
    /\ pc = "chunk_loop"
    /\ ci >= Len(first_chunks(chunks))
    /\ pc' = "done"
    /\ UNCHANGED <<fulltext, kg_chunk_size, chunks, ci, chunk,
                   conversation_history, history0, h_before, prompt, response,
                   type_reply, causal_types, pending, kg_triples, calls,
                   responses>>

----------------------------------------------------------------------------
\* utils/download.py

\* A URL is modelled by the parts the code looks at: whether it is None or
\* empty, the value of its accid query parameter ("" when it has none), the
\* stem of the basename of its path ("" when the path has none) and whether
\* that basename ends in ".pdf".
NoUrl == [empty |-> TRUE, accid |-> "", stem |-> "", pdf_ext |-> FALSE]
UrlSet ==
    { NoUrl,
      [empty |-> FALSE, accid |-> "PMC1", stem |-> "render", pdf_ext |-> FALSE],
      [empty |-> FALSE, accid |-> "", stem |-> "PMC1", pdf_ext |-> TRUE],
      [empty |-> FALSE, accid |-> "", stem |-> "x", pdf_ext |-> FALSE],
      [empty |-> FALSE, accid |-> "", stem |-> "", pdf_ext |-> FALSE] }

Names == {"PMC1.pdf", "x.pdf", "render.pdf", "file_h.pdf"}

\* c + ".pdf" for the stems of the model
with_pdf(c) ==
    CASE c = "PMC1" -> "PMC1.pdf"
      [] c = "x" -> "x.pdf"
      [] c = "render" -> "render.pdf"
      [] OTHER -> "file_h.pdf"

\* make_safe_filename_from_url: None for no URL (the empty name here), else
\* the identifier of the query, else the basename of the path, else the
\* hashed fallback; always with the .pdf suffix
make_safe_filename_from_url(url) ==
    IF url.empty THEN ""
    ELSE IF url.accid # "" THEN with_pdf(url.accid)
    ELSE IF url.stem # "" THEN with_pdf(url.stem)
    ELSE with_pdf("file_h")

\* url.lower().endswith(".pdf"): a URL with a query ends with its query
ends_with_pdf(url) == url.accid = "" /\ url.stem # "" /\ url.pdf_ext

is_pdf_type(ctype) == ctype = "application/pdf"

\* What the network can answer
HeadOutcomes == {"error", "application/pdf", "text/html"}
GetOutcomes ==
    [error : {FALSE}, status : {200, 404}, ctype : {"application/pdf", "text/html"}]
    \cup {[error |-> TRUE, status |-> 0, ctype |-> ""]}
WriteOutcomes == {"complete", "broken"}
NoRequest == [requested |-> FALSE, error |-> FALSE, status |-> 0, ctype |-> ""]

\* open(save_path, "wb") and the loop over iter_content: the file holds the
\* whole body, or a part of it when the stream breaks
write_body(fs, save_path, get, wr) ==
    IF wr = "complete"
    THEN [ok |-> TRUE, files |-> [fs EXCEPT ![save_path] = get.ctype]]
    ELSE [ok |-> FALSE, files |-> [fs EXCEPT ![save_path] = "partial"]]

\* download_pdf: True and the file written, or False
download_pdf(url, save_path, head, get, wr, fs) ==
    LET ctype == IF head = "error" THEN "" ELSE head IN
    IF url.empty THEN [ok |-> FALSE, files |-> fs]
    ELSE IF ends_with_pdf(url) \/ is_pdf_type(ctype)
    THEN IF get.error THEN [ok |-> FALSE, files |-> fs]
         ELSE IF get.status = 200 /\ (is_pdf_type(get.ctype) \/ ends_with_pdf(url))
         THEN write_body(fs, save_path, get, wr)
         ELSE [ok |-> FALSE, files |-> fs]
    ELSE IF get.error THEN [ok |-> FALSE, files |-> fs]
         ELSE IF get.status = 200 /\ is_pdf_type(get.ctype)
         THEN write_body(fs, save_path, get, wr)
         ELSE [ok |-> FALSE, files |-> fs]

\* the overwrite flag read the wrong way round
keep_existing_inverted(exists, ow) == exists /\ ow

\* os.path.exists(save_path) and not overwrite
keep_existing(exists, ow) == exists /\ ~ow

\* os.remove(save_path) when it exists
remove(fs, save_path) == [fs EXCEPT ![save_path] = "absent"]

DLIdle ==
    /\ urls = <<>> /\ overwrite = FALSE /\ files = [n \in Names |-> "absent"]
    /\ results = <<>> /\ net = <<>> /\ di = 0

DLInit ==
    /\ urls \in UNION { [1..n -> UrlSet] : n \in 0..MaxUrls }
    /\ overwrite \in BOOLEAN
    /\ files \in [Names -> {"absent", "old"}]
    /\ results = <<>> /\ net = <<>> /\ di = 0

\* one iteration of the loop of save_pdfs_from_url_list
ProcessUrl ==
    /\ UNCHANGED <<splitvars, kgvars>>
    /\ di < Len(urls)
    /\ di' = di + 1
    /\ LET url == urls[di + 1]
           made == make_safe_filename_from_url(url)
           safe_name == IF made = "" THEN with_pdf("file_h") ELSE made
       IN IF url.empty
          THEN /\ results' = Append(results, [name |-> "", url |-> url, status |-> "SKIP"])
               /\ net' = Append(net, NoRequest)
               /\ files' = files
          ELSE IF keep_existing(files[safe_name] # "absent", overwrite)
          THEN /\ results' = Append(results, [name |-> safe_name, url |-> url, status |-> "EXISTS"])
               /\ net' = Append(net, NoRequest)
               /\ files' = files
          ELSE \E head \in HeadOutcomes, get \in GetOutcomes, wr \in WriteOutcomes :
                 LET d == download_pdf(url, safe_name, head, get, wr, files) IN
                 /\ net' = Append(net, [requested |-> TRUE, error |-> get.error,
                                        status |-> get.status, ctype |-> get.ctype])
                 /\ IF d.ok
                    THEN /\ results' = Append(results, [name |-> safe_name, url |-> url, status |-> "OK"])
                         /\ files' = d.files
                    ELSE /\ results' = Append(results, [name |-> safe_name, url |-> url, status |-> "FAIL"])
                         /\ files' = IF d.files[safe_name] # "absent"
                                     THEN remove(d.files, safe_name) ELSE d.files
    /\ UNCHANGED <<urls, overwrite>>

----------------------------------------------------------------------------
\* split_text on its own: the inputs are drawn, then the function is applied

SplitIdle ==
    /\ text = <<>> /\ chunk_size = 0 /\ split_chunks = <<>> /\ split_pc = "idle"

SplitInit ==
    /\ text \in TextsOf(MaxSentences, MaxSentLen)
    /\ chunk_size \in 1..MaxChunkSize
    /\ split_chunks = <<>>
    /\ split_pc = "call"

CallSplitText ==
    /\ UNCHANGED <<kgvars, dlvars>>
    /\ split_pc = "call"
    /\ split_chunks' = split_text(text, chunk_size)
    /\ split_pc' = "returned"
    /\ UNCHANGED <<text, chunk_size>>

----------------------------------------------------------------------------
\* Specifications

InitSplit == SplitInit /\ KGIdle /\ DLIdle
NextSplit == CallSplitText
SpecSplit == InitSplit /\ [][NextSplit]_vars

InitKG == SplitIdle /\ KGInit /\ DLIdle
NextKG ==
    \/ Start
    \/ BeginChunk
    \/ GenerateSend
    \/ GenerateReturn
    \/ GenerateRaise
    \/ ParseTypes
    \/ BeginInstance
    \/ AppendInstance
    \/ EndChunk
    \/ Return
SpecKG == InitKG /\ [][NextKG]_vars

InitDL == SplitIdle /\ KGIdle /\ DLInit
NextDL == ProcessUrl
SpecDL == InitDL /\ [][NextDL]_vars

Init == InitSplit \/ InitKG \/ InitDL
Next == NextSplit \/ NextKG \/ NextDL
Spec == Init /\ [][Next]_vars

----------------------------------------------------------------------------
\* Properties

IsTypeCall(c) == c.prompt.kind = "type"
IsInstanceCall(c) == c.prompt.kind = "instance"
TypeCalls == SelectSeq(calls, IsTypeCall)
InstanceCalls == SelectSeq(calls, IsInstanceCall)
IsBlank(s) == \A i \in 1..Len(s) : s[i] = Space
\* the discovery reply of the chunk has been parsed
TypesParsed == Len(responses) >= 1 /\ pc # "type_returned"

\* C1: the chunks returned by split_text, concatenated in order and split
\* back into sentences, are the sentences of the document, each exactly once
\* and in the original order.
C1_AllSentencesOnce ==
    split_pc = "returned" =>
        sent_tokenize(join(split_chunks, Space)) = sent_tokenize(text)

\* C2: when the reply to the type-discovery prompt is empty or blank, the
\* set of causal types is empty, no instance-extraction call is issued and
\* nothing is appended to the triple list.
C2_BlankReplyNoTypes ==
    (TypesParsed /\ IsBlank(type_reply)) =>
        /\ causal_types = {}
        /\ InstanceCalls = <<>>
        /\ kg_triples = <<>>

\* C3: as long as no generation call raises, the conversation history is its
\* pre-pipeline value between the steps and after the return, and while a
\* call is in flight (and in what each call sent) it is the pre-pipeline
\* history plus the one turn of that call's prompt.
C3_HistoryBalanced ==
    pc # "raised" =>
        /\ pc \in {"type_wait", "instance_wait"} =>
               conversation_history = Append(history0, user_turn(prompt))
        /\ pc \in {"start", "chunk_loop", "type_call", "instance_loop",
                   "instance_call", "done"} =>
               conversation_history = history0
        /\ \A i \in 1..Len(calls) :
               calls[i].sent = Append(history0, user_turn(calls[i].prompt))

C3_Witness ==
    /\ pc = "done"
    /\ history0 # <<>>
    /\ Len(kg_triples) >= 2
    /\ conversation_history = history0

\* C4: when extract_causal_kg returns, one type-discovery call has been
\* issued per chunk of split_text, the i-th call carrying the i-th chunk.
C4_EveryChunkDiscovered ==
    pc = "done" =>
        /\ Len(TypeCalls) = Len(chunks)
        /\ \A i \in 1..Len(TypeCalls) :
               i <= Len(chunks) /\ TypeCalls[i].prompt.chunk = chunks[i]

C6_OversizedWhole ==
    split_pc = "returned" =>
        \A i \in 1..Len(sent_tokenize(text)) :
            Len(sent_tokenize(text)[i]) > chunk_size =>
                \E j \in 1..Len(split_chunks) : split_chunks[j] = sent_tokenize(text)[i]

\* C7: a URL whose GET was answered 200 with a content type other than
\* application/pdf is reported FAIL and no file is at its target path.
C7_NonPdfFails ==
    (/\ di >= 1
     /\ net[di].requested
     /\ ~net[di].error
     /\ net[di].status = 200
     /\ ~is_pdf_type(net[di].ctype)) =>
        /\ results[di].status = "FAIL"
        /\ files[results[di].name] = "absent"

\* C8: without overwrite, a URL reached while a file is at its target path
\* is reported EXISTS, no request is made for it and no file changes.
C8_ExistingKept ==
    [][(/\ ~overwrite
        /\ di < Len(urls)
        /\ di' = di + 1
        /\ ~urls[di + 1].empty
        /\ files[make_safe_filename_from_url(urls[di + 1])] # "absent") =>
           /\ files' = files
           /\ results'[di + 1].status = "EXISTS"
           /\ ~net'[di + 1].requested]_vars

C8_Witness ==
    /\ ~overwrite
    /\ Len(results) = 2
    /\ results[1].status = "OK"
    /\ results[2].status = "EXISTS"
    /\ results[1].name = results[2].name
    /\ results[1].url # results[2].url
    /\ files[results[1].name] = "application/pdf"

\* C9: a chunk of split_text made of two or more sentences is at most
\* chunk_size characters long.
C9_MultiSentenceBounded ==
    split_pc = "returned" =>
        \A j \in 1..Len(split_chunks) :
            Len(sent_tokenize(split_chunks[j])) >= 2 =>
                Len(split_chunks[j]) <= chunk_size

\* C10 as stated: when generate_text has returned, the history has grown by
\* two turns, the user turn of the prompt and an assistant turn.
C10_TwoTurnsAppended ==
    pc \in {"type_returned", "instance_returned"} =>
        /\ Len(conversation_history) = Len(h_before) + 2
        /\ conversation_history[Len(h_before) + 1] = user_turn(prompt)
        /\ conversation_history[Len(h_before) + 2].role = "assistant"

\* C10 as amended: when generate_text has returned, the history is the
\* history before the call plus exactly one turn, the user turn of the
\* prompt; the reply is not recorded.
C10_OneTurnAppended ==
    pc \in {"type_returned", "instance_returned"} =>
        conversation_history = Append(h_before, user_turn(prompt))

C10_Witness ==
    /\ pc = "instance_returned"
    /\ h_before # <<>>
    /\ Len(conversation_history) = Len(h_before) + 1
    /\ response \in InstanceReplies

====
